---- MODULE Spec2Model ----
(***************************************************************************)
(* Model of the redirect-resolution proxy of worker/worker.js: one inbound *)
(* request is handled at a time (the handler keeps no state between        *)
(* requests), from its arrival to the response the handler returns.        *)
(*                                                                         *)
(* Strings are sequences of lexemes.  A lexeme is an atomic piece of text  *)
(* whose characters occur nowhere else in the modelled strings:            *)
(*   "http" "s" ":" "/" "?" "&" "="   the literal characters               *)
(*   "g" "h"                          host names (gateway, upstream)       *)
(*   "p" "x" "a" "o" "f"              other letters                        *)
(*   "M"        the literal text  __proxy_redirect_mode                    *)
(*   "m"        a percent-encoded spelling of it (__proxy%5Fredirect_mode) *)
(*   "manual"   the literal text  manual                                   *)
(***************************************************************************)
EXTENDS Integers, Sequences, FiniteSets

VARIABLES pc, request, targetUrl, isManualMode, outbound, fetchCount,
          upstream, error, branch, response, responseCount

vars == <<pc, request, targetUrl, isManualMode, outbound, fetchCount,
          upstream, error, branch, response, responseCount>>

\* Largest number of query parameters on an inbound request URL.
MaxParams == 2

-----------------------------------------------------------------------------
(* String primitives (String.prototype.startsWith / includes / slice).     *)

StartsWith(s, p) ==
    /\ Len(s) >= Len(p)
    /\ SubSeq(s, 1, Len(p)) = p

Includes(s, sub) ==
    \E i \in 1..(Len(s) + 1 - Len(sub)) : SubSeq(s, i, i + Len(sub) - 1) = sub

Slice1(s) == IF s = <<>> THEN <<>> ELSE Tail(s)

\* First index >= i whose lexeme is in stop, or Len(s) + 1.
RECURSIVE Until(_, _, _)
Until(s, i, stop) ==
    IF i > Len(s) \/ s[i] \in stop THEN i ELSE Until(s, i + 1, stop)

\* First index >= i whose lexeme is not in skip, or Len(s) + 1.
RECURSIVE SkipWhile(_, _, _)
SkipWhile(s, i, skip) ==
    IF i > Len(s) \/ s[i] \notin skip THEN i ELSE SkipWhile(s, i + 1, skip)

\* The pieces of s between occurrences of sep.
RECURSIVE Split(_, _)
Split(s, sep) ==
    LET j == Until(s, 1, {sep})
    IN  IF j > Len(s) THEN <<s>>
        ELSE <<SubSeq(s, 1, j - 1)>> \o Split(SubSeq(s, j + 1, Len(s)), sep)

-----------------------------------------------------------------------------
(* The URL class: parsing, the pathname / search getters, searchParams and *)
(* serialisation, as the WHATWG URL standard defines them for the special  *)
(* schemes http and https (the only schemes with a ":" in these strings).  *)

ReservedParam == <<"M">>
ManualValue   == <<"manual">>

NoUrl == [ok |-> FALSE, scheme |-> <<>>, host |-> <<>>, path |-> <<>>,
          hasQuery |-> FALSE, query |-> <<>>]

ParseURL(s) ==
    LET afterScheme ==
            IF StartsWith(s, <<"http", ":">>) THEN 3
            ELSE IF StartsWith(s, <<"http", "s", ":">>) THEN 4
            ELSE 0
        hostStart == SkipWhile(s, afterScheme, {"/"})
        hostEnd   == Until(s, hostStart, {"/", "?"})
        pathEnd   == Until(s, hostEnd, {"?"})
        rawPath   == SubSeq(s, hostEnd, pathEnd - 1)
    IN  IF afterScheme = 0 \/ hostEnd = hostStart THEN NoUrl
        ELSE [ok       |-> TRUE,
              scheme   |-> SubSeq(s, 1, afterScheme - 2),
              host     |-> SubSeq(s, hostStart, hostEnd - 1),
              path     |-> IF rawPath = <<>> THEN <<"/">> ELSE rawPath,
              hasQuery |-> pathEnd <= Len(s),
              query    |-> SubSeq(s, pathEnd + 1, Len(s))]

Pathname(u) == u.path

Search(u) == IF u.hasQuery /\ u.query # <<>> THEN <<"?">> \o u.query ELSE <<>>

UrlToString(u) ==
    u.scheme \o <<":", "/", "/">> \o u.host \o u.path
        \o (IF u.hasQuery THEN <<"?">> \o u.query ELSE <<>>)

\* Percent-decoding of a parameter name or value.
RECURSIVE Decode(_)
Decode(s) ==
    IF s = <<>> THEN <<>>
    ELSE <<(IF Head(s) = "m" THEN "M" ELSE Head(s))>> \o Decode(Tail(s))

ParsePair(piece) ==
    LET j == Until(piece, 1, {"="})
    IN  [name  |-> Decode(SubSeq(piece, 1, j - 1)),
         value |-> Decode(SubSeq(piece, j + 1, Len(piece)))]

RECURSIVE ParsePieces(_)
ParsePieces(pieces) ==
    IF pieces = <<>> THEN <<>>
    ELSE (IF Head(pieces) = <<>> THEN <<>> ELSE <<ParsePair(Head(pieces))>>)
            \o ParsePieces(Tail(pieces))

\* application/x-www-form-urlencoded parsing of a query string.
ParseQuery(q) == ParsePieces(Split(q, "&"))

SearchParams(u) == ParseQuery(u.query)

\* URLSearchParams.get(name) === value: the first pair of that name decides.
ParamGetIs(params, name, value) ==
    \E i \in 1..Len(params) :
        /\ params[i].name = name
        /\ params[i].value = value
        /\ \A j \in 1..(i - 1) : params[j].name # name

RECURSIVE SerializeParams(_)
SerializeParams(params) ==
    IF params = <<>> THEN <<>>
    ELSE Head(params).name \o <<"=">> \o Head(params).value
            \o (IF Tail(params) = <<>> THEN <<>>
                ELSE <<"&">> \o SerializeParams(Tail(params)))

RECURSIVE RemoveNamed(_, _)
RemoveNamed(params, name) ==
    IF params = <<>> THEN <<>>
    ELSE (IF Head(params).name = name THEN <<>> ELSE <<Head(params)>>)
            \o RemoveNamed(Tail(params), name)

\* url.searchParams.delete(name): the list is filtered and the URL's query
\* is rewritten from the list (null when the list serialises to nothing).
SearchParamsDelete(u, name) ==
    LET q == SerializeParams(RemoveNamed(SearchParams(u), name))
    IN  [u EXCEPT !.hasQuery = (q # <<>>), !.query = q]

-----------------------------------------------------------------------------
(* The Headers class: a map from (case-folded) names to values.            *)

HasHeader(h, n) == \E p \in h : p[1] = n

GetHeader(h, n) == (CHOOSE p \in h : p[1] = n)[2]

SetHeader(h, n, v) == {p \in h : p[1] # n} \cup {<<n, v>>}

\* if (value) on the result of headers.get: neither null nor "".
Truthy(h, n) == HasHeader(h, n) /\ GetHeader(h, n) # <<>>

-----------------------------------------------------------------------------
(* Inbound requests.                                                       *)

NoBody == <<>>

Gateway == <<"http", "s", ":", "/", "/", "g", "/">>

Methods == {"GET", "HEAD", "POST", "OPTIONS"}

\* The X-Proxy-Manual-Redirect request header: absent, "true", or "TRUE".
ManualHeaderSets ==
    { {},
      {<<"x-proxy-manual-redirect", <<"true">>>>},
      {<<"x-proxy-manual-redirect", <<"TRUE">>>>} }

\* Paths after the gateway's "/":  https://h/p   http:/h   httpx   x
Paths ==
    { <<"http", "s", ":", "/", "/", "h", "/", "p">>,
      <<"http", ":", "/", "h">>,
      <<"http", "x">>,
      <<"x">> }

\* Query parameters as the caller writes them:
\*   M=manual   M=o   M (no "=")   m=manual (encoded name)   a=o
Items ==
    { [name |-> <<"M">>, eq |-> TRUE,  value |-> <<"manual">>],
      [name |-> <<"M">>, eq |-> TRUE,  value |-> <<"o">>],
      [name |-> <<"M">>, eq |-> FALSE, value |-> <<>>],
      [name |-> <<"m">>, eq |-> TRUE,  value |-> <<"manual">>],
      [name |-> <<"a">>, eq |-> TRUE,  value |-> <<"o">>] }

ItemLists == UNION { [1..n -> Items] : n \in 0..MaxParams }

RenderItem(it) == it.name \o (IF it.eq THEN <<"=">> \o it.value ELSE <<>>)

RECURSIVE RenderQuery(_)
RenderQuery(items) ==
    IF items = <<>> THEN <<>>
    ELSE RenderItem(Head(items))
            \o (IF Tail(items) = <<>> THEN <<>>
                ELSE <<"&">> \o RenderQuery(Tail(items)))

RequestUrl(path, items) ==
    Gateway \o path
        \o (IF items = <<>> THEN <<>> ELSE <<"?">> \o RenderQuery(items))

\* Every request a caller can send (only a POST carries a body); params
\* records the parameter list the caller encoded into url.
Requests ==
    { [method |-> mb[1], headers |-> h, url |-> RequestUrl(p, its),
       body |-> mb[2], params |-> its] :
        mb \in { <<m, b>> : m \in Methods, b \in {NoBody, <<"request-payload">>} }
                 \ { <<m, <<"request-payload">>>> : m \in Methods \ {"POST"} },
        h \in ManualHeaderSets, p \in Paths, its \in ItemLists }

NoRequest == [method |-> "", headers |-> {}, url |-> <<>>,
              body |-> NoBody, params |-> <<>>]

-----------------------------------------------------------------------------
(* The handler's steps.                                                    *)

UserAgent ==
    <<"Mozilla/5.0 (compatible; Googlebot/2.1; +http://www.google.com/bot.html)">>

\* A preflight answer that forgets Access-Control-Allow-Headers.
PreflightResponseNoAllowHeaders ==
    [status  |-> 200,
     body    |-> NoBody,
     headers |-> { <<"access-control-allow-origin", <<"*">>>>,
                   <<"access-control-allow-methods",
                     <<"GET, HEAD, POST, OPTIONS">>>> }]

PreflightResponse ==
    [status  |-> 200,
     body    |-> NoBody,
     headers |-> { <<"access-control-allow-origin", <<"*">>>>,
                   <<"access-control-allow-methods",
                     <<"GET, HEAD, POST, OPTIONS">>>>,
                   <<"access-control-allow-headers",
                     <<"Content-Type, X-Final-Url, X-Proxy-Manual-Redirect">>>> }]

CandidateTarget(req) ==
    LET url == ParseURL(req.url)
    IN  Slice1(Pathname(url)) \o Search(url)

PassesPrefixCheck(t) == StartsWith(t, <<"http">>)

InvalidResponse ==
    [status  |-> 400,
     body    |-> <<"Invalid URL. Usage: /https://example.com">>,
     headers |-> { <<"access-control-allow-origin", <<"*">>>> }]

\* A mode test that looks at the request header only.
IsManualModeHeaderOnly(req) ==
    /\ HasHeader(req.headers, "x-proxy-manual-redirect")
    /\ GetHeader(req.headers, "x-proxy-manual-redirect") = <<"true">>

IsManualModeOf(req) ==
    \/ /\ HasHeader(req.headers, "x-proxy-manual-redirect")
       /\ GetHeader(req.headers, "x-proxy-manual-redirect") = <<"true">>
    \/ ParamGetIs(SearchParams(ParseURL(req.url)), ReservedParam, ManualValue)

StripReserved(t) ==
    IF Includes(t, ReservedParam \o <<"=">>)
    THEN LET targetUrlObj == ParseURL(t)
         IN  IF targetUrlObj.ok
             THEN UrlToString(SearchParamsDelete(targetUrlObj, ReservedParam))
             ELSE t
    ELSE t

\* fetch(targetUrl, fetchOptions): fetchOptions names no body.
FetchCall(req, t, manual) ==
    [url      |-> t,
     method   |-> req.method,
     headers  |-> { <<"user-agent", UserAgent>> },
     redirect |-> IF manual THEN "manual" ELSE "follow",
     body     |-> NoBody]

NoFetch == [url |-> <<>>, method |-> "", headers |-> {}, redirect |-> "",
            body |-> NoBody]

\* A header rewrite that keeps the upstream's own allow-origin value.
BaseHeadersKeepUpstream(up) ==
    SetHeader(IF HasHeader(up.headers, "access-control-allow-origin")
              THEN up.headers
              ELSE SetHeader(up.headers, "access-control-allow-origin", <<"*">>),
              "access-control-expose-headers", <<"X-Final-Url, Location">>)

BaseHeaders(up) ==
    SetHeader(SetHeader(up.headers, "access-control-allow-origin", <<"*">>),
              "access-control-expose-headers", <<"X-Final-Url, Location">>)

IsRedirectStatus(status) == status >= 300 /\ status < 400

\* A manual-mode composer that always reports the target.
ManualHeadersAlwaysTarget(up, t) ==
    SetHeader(BaseHeaders(up), "x-final-url", t)

ManualHeaders(up, t) ==
    IF IsRedirectStatus(up.status)
    THEN IF Truthy(up.headers, "location")
         THEN SetHeader(BaseHeaders(up), "x-final-url",
                        GetHeader(up.headers, "location"))
         ELSE BaseHeaders(up)
    ELSE SetHeader(BaseHeaders(up), "x-final-url", t)

\* A follow-mode composer that ignores response.url.
FollowHeadersTargetOnly(up, t) ==
    SetHeader(BaseHeaders(up), "x-final-url", t)

FollowHeaders(up, t) ==
    SetHeader(BaseHeaders(up), "x-final-url",
              IF up.url # <<>> THEN up.url ELSE t)

PassThrough(up, headers) ==
    [status |-> up.status, body |-> up.body, headers |-> headers]

\* A catch clause that hides the failure's message.
ErrorResponseNoMessage(msg) ==
    [status  |-> 500,
     body    |-> <<"Error: ", "internal error">>,
     headers |-> { <<"access-control-allow-origin", <<"*">>>> }]

ErrorResponse(msg) ==
    [status  |-> 500,
     body    |-> <<"Error: ", msg>>,
     headers |-> { <<"access-control-allow-origin", <<"*">>>> }]

NoResponse == [status |-> 0, body |-> NoBody, headers |-> {}]

-----------------------------------------------------------------------------
(* What the platform's fetch can give back.                                *)

LocationUrl == <<"http", "s", ":", "/", "/", "h", "/", "f">>
TerminalUrl == <<"http", "s", ":", "/", "/", "h", "/", "p", "/">>

\* Upstream headers: Location absent, empty or a URL; with or without the
\* upstream's own X-Final-Url and Access-Control-Allow-Origin.
UpstreamHeaderSets ==
    { loc \cup own :
        loc \in { {}, {<<"location", <<>>>>}, {<<"location", LocationUrl>>} },
        own \in { {}, { <<"x-final-url", <<"upstream-own">>>>,
                        <<"access-control-allow-origin", <<"other.example">>>> } } }

UpstreamResponses ==
    [status  : {200, 302, 404},
     headers : UpstreamHeaderSets,
     body    : {NoBody, <<"upstream-payload">>},
     url     : {<<>>, TerminalUrl}]

\* With redirect: "follow" a 3xx that names a Location is followed, never
\* returned; with redirect: "manual" every response is returned as it is.
FetchResults(call) ==
    { up \in UpstreamResponses :
        call.redirect = "follow" =>
            ~(IsRedirectStatus(up.status) /\ Truthy(up.headers, "location")) }

NoUpstream == [status |-> 0, headers |-> {}, body |-> NoBody, url |-> <<>>]

\* fetch rejects without a network call when its URL does not parse, and
\* may reject on any network failure otherwise.
FetchErrors(call) ==
    IF ParseURL(call.url).ok THEN {"Network connection lost"}
    ELSE {"Invalid URL"}

-----------------------------------------------------------------------------
(* The state machine: one request from arrival to response.                *)

Init ==
    /\ pc = "idle"
    /\ request = NoRequest
    /\ targetUrl = <<>>
    /\ isManualMode = FALSE
    /\ outbound = NoFetch
    /\ fetchCount = 0
    /\ upstream = NoUpstream
    /\ error = ""
    /\ branch = "none"
    /\ response = NoResponse
    /\ responseCount = 0

\* request.method === "OPTIONS": the preflight answer, nothing else runs.
Preflight(req) ==
    /\ pc = "idle"
    /\ req.method = "OPTIONS"
    /\ request' = req
    /\ response' = PreflightResponse
    /\ responseCount' = responseCount + 1
    /\ branch' = "preflight"
    /\ pc' = "done"
    /\ UNCHANGED <<targetUrl, isManualMode, outbound, fetchCount, upstream, error>>

\* The target fails the prefix check: 400.
RejectInvalid(req) ==
    /\ pc = "idle"
    /\ req.method # "OPTIONS"
    /\ ~PassesPrefixCheck(CandidateTarget(req))
    /\ request' = req
    /\ targetUrl' = CandidateTarget(req)
    /\ response' = InvalidResponse
    /\ responseCount' = responseCount + 1
    /\ branch' = "invalid"
    /\ pc' = "done"
    /\ UNCHANGED <<isManualMode, outbound, fetchCount, upstream, error>>

\* Mode, parameter stripping, fetch options and the call of fetch; the
\* handler then awaits the result.
Dispatch(req) ==
    /\ pc = "idle"
    /\ req.method # "OPTIONS"
    /\ PassesPrefixCheck(CandidateTarget(req))
    /\ request' = req
    /\ isManualMode' = IsManualModeOf(req)
    /\ targetUrl' = StripReserved(CandidateTarget(req))
    /\ outbound' = FetchCall(req, targetUrl', isManualMode')
    /\ fetchCount' = fetchCount + 1
    /\ pc' = "awaiting"
    /\ UNCHANGED <<upstream, error, branch, response, responseCount>>

\* fetch rejects: the catch clause answers 500 with the message.
FetchThrows(msg) ==
    /\ pc = "awaiting"
    /\ msg \in FetchErrors(outbound)
    /\ error' = msg
    /\ response' = ErrorResponse(msg)
    /\ responseCount' = responseCount + 1
    /\ branch' = "catch"
    /\ pc' = "done"
    /\ UNCHANGED <<request, targetUrl, isManualMode, outbound, fetchCount, upstream>>

\* fetch resolves and isManualMode holds.
ComposeManual(up) ==
    /\ pc = "awaiting"
    /\ ParseURL(outbound.url).ok
    /\ up \in FetchResults(outbound)
    /\ isManualMode
    /\ upstream' = up
    /\ response' = PassThrough(up, ManualHeaders(up, targetUrl))
    /\ responseCount' = responseCount + 1
    /\ branch' = "manual"
    /\ pc' = "done"
    /\ UNCHANGED <<request, targetUrl, isManualMode, outbound, fetchCount, error>>

\* fetch resolves and isManualMode does not hold.
ComposeFollow(up) ==
    /\ pc = "awaiting"
    /\ ParseURL(outbound.url).ok
    /\ up \in FetchResults(outbound)
    /\ ~isManualMode
    /\ upstream' = up
    /\ response' = PassThrough(up, FollowHeaders(up, targetUrl))
    /\ responseCount' = responseCount + 1
    /\ branch' = "follow"
    /\ pc' = "done"
    /\ UNCHANGED <<request, targetUrl, isManualMode, outbound, fetchCount, error>>

\* Nothing outlives a request: the next one starts from the initial state.
NextRequest ==
    /\ pc = "done"
    /\ pc' = "idle"
    /\ request' = NoRequest
    /\ targetUrl' = <<>>
    /\ isManualMode' = FALSE
    /\ outbound' = NoFetch
    /\ fetchCount' = 0
    /\ upstream' = NoUpstream
    /\ error' = ""
    /\ branch' = "none"
    /\ response' = NoResponse
    /\ responseCount' = 0

Next ==
    \/ pc = "idle" /\ \E req \in Requests : Preflight(req)
    \/ pc = "idle" /\ \E req \in Requests : RejectInvalid(req)
    \/ pc = "idle" /\ \E req \in Requests : Dispatch(req)
    \/ pc = "awaiting" /\ \E msg \in FetchErrors(outbound) : FetchThrows(msg)
    \/ pc = "awaiting" /\ \E up \in FetchResults(outbound) : ComposeManual(up)
    \/ pc = "awaiting" /\ \E up \in FetchResults(outbound) : ComposeFollow(up)
    \/ NextRequest

Spec == Init /\ [][Next]_vars

-----------------------------------------------------------------------------
(* Properties.                                                             *)

HasSchemePrefix(t) ==
    \/ StartsWith(t, <<"http", ":", "/", "/">>)
    \/ StartsWith(t, <<"http", "s", ":", "/", "/">>)

\* The query part of a URL string holds a parameter spelled exactly as the
\* reserved name (with or without a value).
HasReservedParam(t) ==
    LET q      == SubSeq(t, Until(t, 1, {"?"}) + 1, Len(t))
        pieces == Split(q, "&")
    IN  \E k \in 1..Len(pieces) :
            /\ pieces[k] # <<>>
            /\ SubSeq(pieces[k], 1, Until(pieces[k], 1, {"="}) - 1) = ReservedParam

\* The caller's parameter list asks for manual mode: its first parameter
\* spelling the reserved name has the value manual.
ParamsSayManual(items) ==
    \E i \in 1..Len(items) :
        /\ Decode(items[i].name) = ReservedParam
        /\ items[i].eq
        /\ Decode(items[i].value) = ManualValue
        /\ \A j \in 1..(i - 1) : Decode(items[j].name) # ReservedParam

HeaderSaysManual(req) ==
    <<"x-proxy-manual-redirect", <<"true">>>> \in req.headers

Composed == branch \in {"manual", "follow"}

\* C1: a request (other than the OPTIONS preflight) whose candidate target
\* starts with neither http:// nor https:// is answered 400, and no outbound
\* fetch is performed for it.
C1_InvalidTargetIs400 ==
    (/\ pc = "done"
     /\ request.method # "OPTIONS"
     /\ ~HasSchemePrefix(CandidateTarget(request)))
        => (response.status = 400 /\ fetchCount = 0)

\* C2: the URL handed to fetch never names the reserved parameter (stated
\* here for the URLs fetch can parse, which really go upstream).
C2_ReservedParamNeverDispatched ==
    (fetchCount > 0 /\ ParseURL(outbound.url).ok)
        => ~HasReservedParam(outbound.url)

\* C3: in manual mode, when the upstream response is not a 3xx, or is a 3xx
\* without a Location header, X-Final-Url is set and equals the target.
C3_ManualFallbackIsTarget ==
    (/\ branch = "manual"
     /\ \/ ~IsRedirectStatus(upstream.status)
        \/ ~HasHeader(upstream.headers, "location"))
        => (/\ HasHeader(response.headers, "x-final-url")
            /\ GetHeader(response.headers, "x-final-url") = targetUrl)

C5_FollowReportsTerminalUrl ==
    branch = "follow"
        => (/\ outbound.redirect = "follow"
            /\ response.status = upstream.status
            /\ HasHeader(response.headers, "x-final-url")
            /\ GetHeader(response.headers, "x-final-url")
                 = (IF upstream.url = <<>> THEN targetUrl ELSE upstream.url))

C5_Witness ==
    /\ branch = "follow"
    /\ upstream.url = TerminalUrl
    /\ targetUrl # TerminalUrl
    /\ <<"x-final-url", <<"upstream-own">>>> \in upstream.headers
    /\ <<"x-final-url", TerminalUrl>> \in response.headers

\* C6: an OPTIONS request to any path is answered with an empty body, a
\* success status and the three CORS headers, and never reaches fetch.
C6_PreflightAnswersWithoutFetch ==
    request.method = "OPTIONS"
        => (/\ fetchCount = 0
            /\ pc = "done"
            /\ response.body = NoBody
            /\ response.status \in 200..299
            /\ response.headers =
                 { <<"access-control-allow-origin", <<"*">>>>,
                   <<"access-control-allow-methods",
                     <<"GET, HEAD, POST, OPTIONS">>>>,
                   <<"access-control-allow-headers",
                     <<"Content-Type, X-Final-Url, X-Proxy-Manual-Redirect">>>> })

C6_Witness ==
    /\ pc = "done"
    /\ request.method = "OPTIONS"
    /\ HasSchemePrefix(CandidateTarget(request))
    /\ HeaderSaysManual(request)
    /\ branch = "preflight"

\* C7: the outbound request carries the inbound method, the fixed crawler
\* User-Agent, and the inbound body whenever there is one (stated here for
\* the calls whose URL fetch can parse, which really go upstream).
C7_OutboundCarriesMethodAgentBody ==
    (fetchCount > 0 /\ ParseURL(outbound.url).ok)
        => (/\ outbound.method = request.method
            /\ <<"user-agent", UserAgent>> \in outbound.headers
            /\ (request.body # NoBody => outbound.body = request.body))

\* C8: a failure is answered by exactly one response, with status 500 and
\* the failure's message in its body, and fetch is called at most once per
\* request on every path.
C8_FailureIsOne500AndNoRetry ==
    /\ fetchCount <= 1
    /\ responseCount <= 1
    /\ error # "" =>
        (/\ pc = "done"
         /\ responseCount = 1
         /\ response.status = 500
         /\ \E i \in 1..Len(response.body) : response.body[i] = error)

C8_Witness ==
    /\ pc = "done"
    /\ error = "Network connection lost"
    /\ fetchCount = 1
    /\ response.status = 500

\* C9: every response the handler returns carries
\* Access-Control-Allow-Origin: *, whatever the upstream sent.
C9_EveryResponseAllowsAnyOrigin ==
    pc = "done"
        => (/\ HasHeader(response.headers, "access-control-allow-origin")
            /\ GetHeader(response.headers, "access-control-allow-origin") = <<"*">>
            /\ Cardinality({ p \in response.headers :
                               p[1] = "access-control-allow-origin" }) = 1)

C9_Witness ==
    /\ Composed
    /\ <<"access-control-allow-origin", <<"other.example">>>> \in upstream.headers
    /\ <<"access-control-allow-origin", <<"*">>>> \in response.headers

\* C10: the fetch is issued with redirect policy manual exactly when the
\* request header is "true" or the reserved query parameter is manual, with
\* policy follow otherwise, and the composer branch is that of the policy.
C10_ExactlyOneMode ==
    fetchCount > 0
        => (/\ outbound.redirect \in {"manual", "follow"}
            /\ outbound.redirect = "manual"
                 <=> (HeaderSaysManual(request) \/ ParamsSayManual(request.params))
            /\ Composed => branch = outbound.redirect)

C10_Witness ==
    /\ branch = "manual"
    /\ ~HeaderSaysManual(request)
    /\ request.headers # {}
    /\ Len(request.params) = 2
    /\ request.params[1].name = <<"a">>
    /\ request.params[2].name = <<"m">>

====
